---- MODULE Spec2Model ----
(***************************************************************************)
(* Team-assignment and queue-maintenance engine of the pickleball session  *)
(* manager (lib/algorithm.ts in its two revisions, and the session routes  *)
(* that call it).                                                          *)
(*                                                                         *)
(* Conventions                                                             *)
(*  - player ids are the naturals 1..n in roster order; 0 is "no player"   *)
(*    and NullTeam is the null team of an empty court;                     *)
(*  - teammates / opponents are total maps id -> count, a missing entry    *)
(*    of the source (read as `|| 0`) being the count 0;                    *)
(*  - scores are fixed point: calculateTeamScore in units of 0.01,         *)
(*    its weight bonus and repetition penalty in units of 0.1;             *)
(*  - Math.random() is an input.  The jitter of calculateTeamScore is      *)
(*    fully nondeterministic (every candidate whose score can win under    *)
(*    some jitter is an outcome); the random comparator of a sort orders   *)
(*    equal keys by a tie-break drawn from TieBreaks;                      *)
(*  - a match is recorded up to the order of its two teams and of the two  *)
(*    players of a team (Normal);                                          *)
(*  - an operator of the engine yields the set of its possible outcomes.   *)
(***************************************************************************)
EXTENDS Integers, Sequences, FiniteSets, TLC

VARIABLES
    version,        \* which revision of lib/algorithm.ts is linked: 1 or 2
    participants,   \* session.participants / the roster handed to the engine
    courts,         \* session.courts
    queue,          \* session.queue
    courtCount,     \* session.settings.courtCount / the courtCount argument
    weights,        \* session.weights / the weights argument
    totalGames,     \* session.stats.totalGamesPlayed
    currentRound,   \* session.stats.currentRound
    requests,       \* the number of requests the session has served
    result,         \* the last TeamAssignmentResult of generateOptimalTeams
    validation,     \* the last result of validateAssignment
    before,         \* the roster as it was before the last operation
    lastOp,         \* the last operation and its arguments
    sessionStore,   \* memory-store.ts: the object cached for the session, 0 if none
    database,       \* database.ts: the session as its row holds it
    heap,           \* the session objects in memory, by object number
    handlers        \* the next-group requests in flight: position, session object, courtId

storeVars == <<sessionStore, database, heap, handlers>>

vars == <<version, participants, courts, queue, courtCount, weights,
          totalGames, currentRound, requests, result, validation, before, lastOp,
          storeVars>>

----------------------------------------------------------------------------
(* Bounds of the model *)

MaxPlayers == 5

MaxStatCalls == 2

MaxRequests == 3

----------------------------------------------------------------------------
(* Data *)

Ids == 1..13

NullTeam == [player1 |-> 0, player2 |-> 0]

NoMatch == [team1 |-> NullTeam, team2 |-> NullTeam]

EmptyHistory == [i \in Ids |-> 0]

NewParticipant(id, games) ==
    [id |-> id, gamesPlayed |-> games, restRounds |-> 0,
     teammates |-> EmptyHistory, opponents |-> EmptyHistory,
     status |-> "resting", hasLeft |-> FALSE]

\* a cleared court whose status is left at 'playing'
EmptyCourtStillPlaying(i) ==
    [id |-> i, team1 |-> NullTeam, team2 |-> NullTeam, status |-> "playing"]

EmptyCourt(i) == [id |-> i, team1 |-> NullTeam, team2 |-> NullTeam, status |-> "empty"]

MatchPlayers(m) == <<m.team1.player1, m.team1.player2, m.team2.player1, m.team2.player2>>

Range(s) == {s[i] : i \in 1..Len(s)}

RECURSIVE SumSeq(_)
SumSeq(s) == IF s = <<>> THEN 0 ELSE Head(s) + SumSeq(Tail(s))

RECURSIVE Concat(_)
Concat(ss) == IF ss = <<>> THEN <<>> ELSE Head(ss) \o Concat(Tail(ss))

Slice(s, from, to) == SubSeq(s, from + 1, IF to > Len(s) THEN Len(s) ELSE to)

Min(a, b) == IF a < b THEN a ELSE b

Max(a, b) == IF a > b THEN a ELSE b

\* participants.find(p => p.id === id): the index of the first entry, 0 if none
Find(ps, id) ==
    IF \E i \in 1..Len(ps) : ps[i].id = id
    THEN CHOOSE i \in 1..Len(ps) : ps[i].id = id /\ \A j \in 1..(i - 1) : ps[j].id # id
    ELSE 0

RECURSIVE SqrtSearch(_, _, _)
SqrtSearch(x, lo, hi) ==
    IF lo >= hi THEN lo
    ELSE LET mid == (lo + hi + 1) \div 2
         IN IF mid * mid <= x THEN SqrtSearch(x, mid, hi) ELSE SqrtSearch(x, lo, mid - 1)

\* floor of Math.sqrt(x), capped at 1000
ISqrt(x) == SqrtSearch(x, 0, 1000)

----------------------------------------------------------------------------
(* Pairing scorer: calculateTeamScore and its three terms *)

\* playerStats[id] of calculateTeamScore: the reduce keeps the last entry of an id
PlayerStats(ps, id) ==
    IF \E i \in 1..Len(ps) : ps[i].id = id
    THEN CHOOSE i \in 1..Len(ps) : ps[i].id = id /\ \A j \in (i + 1)..Len(ps) : ps[j].id # id
    ELSE 0

\* max(0, 10 - 2 * stddev(gamesPlayed of the four)), in units of 0.01.
\* With S the sum and Q = sum (4g - S)^2, stddev = sqrt(Q) / 8.
CalculateFairnessScore(team1, team2, ps) ==
    LET players == <<team1.player1, team1.player2, team2.player1, team2.player2>>
        games == [n \in 1..4 |->
                    IF PlayerStats(ps, players[n]) = 0 THEN 0
                    ELSE ps[PlayerStats(ps, players[n])].gamesPlayed]
        S == SumSeq(games)
        Q == SumSeq([n \in 1..4 |-> (4 * games[n] - S) * (4 * games[n] - S)])
    IN Max(0, 1000 - ISqrt(625 * Q))

IsTeammates(team, player1, player2) ==
    \/ (team.player1 = player1 /\ team.player2 = player2)
    \/ (team.player1 = player2 /\ team.player2 = player1)

\* isOpponents that only looks for player1 in team1 and player2 in team2
IsOpponentsOneWay(team1, team2, player1, player2) ==
    /\ player1 \in {team1.player1, team1.player2}
    /\ player2 \in {team2.player1, team2.player2}

IsOpponents(team1, team2, player1, player2) ==
    LET team1Players == {team1.player1, team1.player2}
        team2Players == {team2.player1, team2.player2}
    IN \/ (player1 \in team1Players /\ player2 \in team2Players)
       \/ (player2 \in team1Players /\ player1 \in team2Players)

\* CalculateWeightBonus that ignores every weight
CalculateWeightBonusNone(team1, team2, ws) == 0

\* in units of 0.1: strength * 0.5 per teammate weight, strength * 0.3 per opponent weight
CalculateWeightBonus(team1, team2, ws) ==
    SumSeq([n \in 1..Len(ws) |->
        IF ws[n].type = "teammate"
        THEN (IF IsTeammates(team1, ws[n].player1, ws[n].player2)
                 \/ IsTeammates(team2, ws[n].player1, ws[n].player2)
              THEN ws[n].weight * 5 ELSE 0)
        ELSE IF ws[n].type = "opponent"
        THEN (IF IsOpponents(team1, team2, ws[n].player1, ws[n].player2)
              THEN ws[n].weight * 3 ELSE 0)
        ELSE 0])

\* CalculateRepetitionPenalty that leaves out the meetings of team1's second player
CalculateRepetitionPenaltyFirstPlayer(team1, team2, ps) ==
    LET stat(id) == PlayerStats(ps, id)
        mates(t) ==
            IF stat(t.player1) # 0 /\ stat(t.player2) # 0
            THEN ps[stat(t.player1)].teammates[t.player2] * 5 ELSE 0
        opp(a, b) ==
            IF stat(a) # 0 THEN ps[stat(a)].opponents[b] * 3 ELSE 0
    IN 0 - mates(team1) - mates(team2)
         - opp(team1.player1, team2.player1) - opp(team1.player1, team2.player2)

\* in units of 0.1: -0.5 per prior game of a team's pair, -0.3 per prior meeting of a
\* cross-team pair, each read from the map of the first-named player
CalculateRepetitionPenalty(team1, team2, ps) ==
    LET stat(id) == PlayerStats(ps, id)
        mates(t) ==
            IF stat(t.player1) # 0 /\ stat(t.player2) # 0
            THEN ps[stat(t.player1)].teammates[t.player2] * 5 ELSE 0
        opp(a, b) ==
            IF stat(a) # 0 THEN ps[stat(a)].opponents[b] * 3 ELSE 0
    IN 0 - mates(team1) - mates(team2)
         - opp(team1.player1, team2.player1) - opp(team1.player1, team2.player2)
         - opp(team1.player2, team2.player1) - opp(team1.player2, team2.player2)

\* calculateTeamScore without its random factor, in units of 0.01:
\* fairness * 1.0 + weightBonus * 0.8 + repetitionPenalty * 0.6
TeamScore(team1, team2, ws, ps) ==
    CalculateFairnessScore(team1, team2, ps)
    + CalculateWeightBonus(team1, team2, ws) * 8
    + CalculateRepetitionPenalty(team1, team2, ps) * 6

\* The random factor (Math.random() - 0.5) * 0.1 lies in [-0.05, 0.05): two scores
\* can change order exactly when they differ by less than JitterSpan units of 0.01.
JitterSpan == 10

----------------------------------------------------------------------------
(* Team finder *)

\* generateTeamCombinationsForPlayers: team1 = (i, j) with i < j, team2 = (k, l) with
\* k < l, over the positions of the given players
GenerateTeamCombinationsForPlayers(players) ==
    LET n == Len(players)
    IN { [team1 |-> [player1 |-> players[i].id, player2 |-> players[j].id],
          team2 |-> [player1 |-> players[k].id, player2 |-> players[l].id]] :
           <<i, j, k, l>> \in { t \in (1..n) \X (1..n) \X (1..n) \X (1..n) :
                                  /\ t[1] < t[2] /\ t[3] < t[4]
                                  /\ t[3] \notin {t[1], t[2]}
                                  /\ t[4] \notin {t[1], t[2]} } }

\* A match is recorded up to the order of its two teams and of the two players of a
\* team: updatePlayerStats, validateAssignment and the status loops of the routes read
\* a match the same way in either order.  Normal lists each team, and the two teams,
\* by ascending id.
NormalTeam(t) ==
    IF t.player1 < t.player2 THEN t ELSE [player1 |-> t.player2, player2 |-> t.player1]

Normal(m) ==
    LET a == NormalTeam(m.team1)
        b == NormalTeam(m.team2)
    IN IF a.player1 < b.player1 THEN [team1 |-> a, team2 |-> b]
       ELSE [team1 |-> b, team2 |-> a]

RECURSIVE MaxOf(_)
MaxOf(S) ==
    LET x == CHOOSE y \in S : TRUE
    IN IF S = {x} THEN x ELSE Max(x, MaxOf(S \ {x}))

\* findBestTeamMatch: the matches that can have the strictly highest score under some
\* jitter, that is, whose score is within JitterSpan of the highest; {NoMatch} stands
\* for the null returned for fewer than 4 players
FindBestTeamMatch(players, ws, ps) ==
    IF Len(players) < 4 THEN {NoMatch}
    ELSE LET scored == { <<c, TeamScore(c.team1, c.team2, ws, ps)>> :
                           c \in GenerateTeamCombinationsForPlayers(players) }
             bestScore == MaxOf({ x[2] : x \in scored })
         IN { Normal(x[1]) : x \in { y \in scored : y[2] > bestScore - JitterSpan } }

----------------------------------------------------------------------------
(* Sorting with the random comparator *)

\* how a sort's `Math.random() - 0.5` orders two elements of equal key: "keep" leaves
\* them in their order of arrival, "flip" reverses them
TieBreaks == {"keep", "flip"}

\* the comparator with its first key reversed: more gamesPlayed first
PriorityBeforeMostPlayed(a, b) ==
    \/ a.gamesPlayed > b.gamesPlayed
    \/ (a.gamesPlayed = b.gamesPlayed /\ a.restRounds > b.restRounds)

\* the comparator with the order of restRounds reversed
PriorityBeforeLeastRested(a, b) ==
    \/ a.gamesPlayed < b.gamesPlayed
    \/ (a.gamesPlayed = b.gamesPlayed /\ a.restRounds < b.restRounds)

\* fewer gamesPlayed first, then more restRounds first
PriorityBefore(a, b) ==
    \/ a.gamesPlayed < b.gamesPlayed
    \/ (a.gamesPlayed = b.gamesPlayed /\ a.restRounds > b.restRounds)

\* the supplement comparator taking the players with fewer gamesPlayed first
SupplementBeforeLeastPlayed(a, b) ==
    \/ a.gamesPlayed < b.gamesPlayed
    \/ (a.gamesPlayed = b.gamesPlayed /\ a.restRounds < b.restRounds)

\* more gamesPlayed first, then fewer restRounds first
SupplementBefore(a, b) ==
    \/ a.gamesPlayed > b.gamesPlayed
    \/ (a.gamesPlayed = b.gamesPlayed /\ a.restRounds < b.restRounds)

\* order names the comparator handed to Array.prototype.sort
SortWith(s, order, tie) ==
    LET n == Len(s)
        Less(a, b) == IF order = "priority" THEN PriorityBefore(a, b)
                      ELSE SupplementBefore(a, b)
        first(i, j) ==
            \/ Less(s[i], s[j])
            \/ (~Less(s[j], s[i]) /\ (IF tie = "keep" THEN i < j ELSE i > j))
        rank == [i \in 1..n |-> Cardinality({j \in 1..n : first(j, i)})]
    IN [k \in 1..n |-> s[CHOOSE i \in 1..n : rank[i] = k - 1]]

----------------------------------------------------------------------------
(* Court assignment optimizer *)

PlayingCourt(i, m) == [id |-> i, team1 |-> m.team1, team2 |-> m.team2, status |-> "playing"]

EmptyCourts(n) == [i \in 1..n |-> EmptyCourt(i)]

\* the elements of arr at the positions idx, in their order in arr
Pick(arr, idx) ==
    [k \in 1..Cardinality(idx) |->
        arr[CHOOSE i \in idx : Cardinality({j \in idx : j < i}) = k - 1]]

GetCombinations(arr, size) ==
    IF size > Len(arr) THEN {}
    ELSE { Pick(arr, idx) : idx \in { x \in SUBSET (1..Len(arr)) : Cardinality(x) = size } }

\* the candidate assignments, each a sequence of groups of player ids
GenerateCourtAssignments(playerIds, n) ==
    IF n = 1 THEN { << Slice(playerIds, 0, 4) >> }
    ELSE IF n = 2 /\ Len(playerIds) >= 8
    THEN LET firstEight == Slice(playerIds, 0, 8)
         IN { << c1, SelectSeq(firstEight, LAMBDA id : id \notin Range(c1)) >> :
                c1 \in GetCombinations(firstEight, 4) }
    ELSE IF n >= 3
    THEN LET groups == SelectSeq([i \in 1..n |-> Slice(playerIds, (i - 1) * 4, i * 4)],
                                 LAMBDA g : Len(g) = 4)
         IN IF Len(groups) > 0 THEN {groups} ELSE {}
    ELSE {}

\* every sequence whose i-th element is drawn from sets[i]
RECURSIVE Choices(_)
Choices(sets) ==
    IF sets = <<>> THEN {<<>>}
    ELSE { <<h>> \o t : h \in Head(sets), t \in Choices(Tail(sets)) }

RECURSIVE MinOf(_)
MinOf(S) ==
    LET x == CHOOSE y \in S : TRUE
    IN IF S = {x} THEN x ELSE Min(x, MinOf(S \ {x}))

\* findBestGlobalAssignment: per candidate assignment the best match of each group,
\* the assignment kept being one whose summed score can be the strictly highest, that
\* is, can exceed what every candidate may score at its lowest (bar)
FindBestGlobalAssignment(players, n, ws, ps) ==
    LET playerIds == [i \in 1..Len(players) |-> players[i].id]
        maxCourts == Min(n, Len(players) \div 4)
        nulls == [i \in 1..n |-> NoMatch]
        group(g) == [k \in 1..Len(g) |-> players[Find(players, g[k])]]
        score(m) == IF m = NoMatch THEN 0 ELSE TeamScore(m.team1, m.team2, ws, ps)
        total(ms) == SumSeq([i \in 1..Len(ms) |-> score(ms[i])])
        pad(ms) == [i \in 1..n |-> IF i <= Len(ms) THEN ms[i] ELSE NoMatch]
        all == GenerateCourtAssignments(playerIds, maxCourts)
        best == [a \in all |-> [i \in 1..Len(a) |->
                    IF Len(a[i]) = 4 THEN FindBestTeamMatch(group(a[i]), ws, ps)
                    ELSE {NoMatch}]]
        lowest == [a \in all |->
                    SumSeq([i \in 1..Len(a) |-> MinOf({score(m) : m \in best[a][i]})])]
        span == JitterSpan * maxCourts
        bar == 0 - MinOf({0 - lowest[o] : o \in all}) - span
    IN IF maxCourts = 0 \/ all = {} THEN {nulls}
       ELSE UNION { { pad(ms) : ms \in { c \in Choices(best[a]) : total(c) > bar } } :
                    a \in all }

\* assignPlayersToCourts: n courts, filled from the players
AssignPlayersToCourts(players, n, ws, ps) ==
    IF Len(players) < 4 THEN {EmptyCourts(n)}
    ELSE IF n = 1 \/ Len(players) = 4
    THEN { [EmptyCourts(n) EXCEPT ![1] = IF m = NoMatch THEN @ ELSE PlayingCourt(1, m)] :
             m \in FindBestTeamMatch(players, ws, ps) }
    ELSE { [i \in 1..n |-> IF i <= Len(b) /\ b[i] # NoMatch
                             THEN PlayingCourt(i, b[i]) ELSE EmptyCourt(i)] :
             b \in FindBestGlobalAssignment(players, n, ws, ps) }

\* PadCourts that appends nothing
PadCourtsNone(cs, n) == cs

\* "补充空场地": empty courts appended up to courtCount
PadCourts(cs, n) == [i \in 1..Max(n, Len(cs)) |-> IF i <= Len(cs) THEN cs[i] ELSE EmptyCourt(i)]

\* the map over the players that drops the last of them
IdsOfAllButLast(players) == [i \in 1..(Len(players) - 1) |-> players[i].id]

\* players.map(p => p.id)
IdsOf(players) == [i \in 1..Len(players) |-> players[i].id]

\* the filter without its test of hasLeft
NotLeftUnchecked(p) == TRUE

\* the filter `!p.hasLeft`
NotLeft(p) == ~p.hasLeft

\* the early return with its waiting list left empty
TooFewResultNoWaiting(available, n) ==
    [courts |-> EmptyCourts(n), queue |-> <<>>, waiting |-> <<>>]

\* the result returned when fewer than 4 participants have not left
TooFewResult(available, n) ==
    [courts |-> EmptyCourts(n), queue |-> <<>>, waiting |-> IdsOf(available)]

----------------------------------------------------------------------------
(* Revision 1 of generateOptimalTeams: the queue is cut from the sorted list *)

\* generateQueue: consecutive groups of four, each split by the team finder
RECURSIVE GenerateQueue(_, _, _)
GenerateQueue(waitingPlayers, ws, ps) ==
    IF Len(waitingPlayers) < 4 THEN {<<>>}
    ELSE { <<m>> \o rest :
             m \in FindBestTeamMatch(Slice(waitingPlayers, 0, 4), ws, ps),
             rest \in GenerateQueue(Slice(waitingPlayers, 4, Len(waitingPlayers)), ws, ps) }

\* playingCount and queueCount of revision 1
Counts1(totalPlayers, n) ==
    IF totalPlayers >= 12
    THEN IF totalPlayers >= n * 4 + 8
         THEN [playing |-> n * 4, queue |-> 8]
         ELSE [playing |-> ((totalPlayers - 8) \div 4) * 4, queue |-> 8]
    ELSE IF totalPlayers >= 8
    THEN [playing |-> Min(n, (totalPlayers - 4) \div 4) * 4, queue |-> 4]
    ELSE [playing |-> Min(n, totalPlayers \div 4) * 4, queue |-> 0]

\* generateOptimalTeams of revision 1
GenerateOptimalTeams1(ps, n, ws) ==
    LET available == SelectSeq(ps, NotLeft)
    IN IF Len(available) < 4 THEN {TooFewResult(available, n)}
       ELSE UNION {
         LET sorted == SortWith(available, "priority", tie)
             cnt == Counts1(Len(sorted), n)
             playingPlayers == Slice(sorted, 0, cnt.playing)
             queuePlayers == Slice(sorted, cnt.playing, cnt.playing + cnt.queue)
             waitingPlayers == Slice(sorted, cnt.playing + cnt.queue, Len(sorted))
             actualCourtsUsed == (cnt.playing + 3) \div 4
         IN { [courts |-> PadCourts(cs, n), queue |-> q, waiting |-> IdsOf(waitingPlayers)] :
                cs \in AssignPlayersToCourts(playingPlayers, actualCourtsUsed, ws, ps),
                q \in GenerateQueue(queuePlayers, ws, ps) }
         : tie \in TieBreaks }

----------------------------------------------------------------------------
(* Revision 2 of generateOptimalTeams: the queue is built by                         *)
(* generateQueueWithSupplement, which borrows from the playing players               *)

TargetQueueSize == 2

PlayersPerMatch == 4

\* selectOptimalQueueGroup
SelectOptimalQueueGroup(candidates, groupSize) ==
    IF Len(candidates) <= groupSize THEN {Slice(candidates, 0, groupSize)}
    ELSE { Slice(SortWith(candidates, "priority", tie), 0, groupSize) : tie \in TieBreaks }

\* the players borrowed from the courts when the candidates are fewer than 8
SupplementPlayers(queueCandidates, playingPlayers) ==
    IF Len(queueCandidates) < TargetQueueSize * PlayersPerMatch
    THEN { Slice(SortWith(playingPlayers, "supplement", tie), 0,
                 TargetQueueSize * PlayersPerMatch - Len(queueCandidates)) :
             tie \in TieBreaks }
    ELSE {<<>>}

\* the loop of generateQueueWithSupplement from its i-th round on
RECURSIVE QueueRounds(_, _, _, _, _, _)
QueueRounds(i, queueCandidates, usedPlayers, q, ws, ps) ==
    LET availableCandidates ==
            SelectSeq(queueCandidates, LAMBDA p : p.id \notin usedPlayers)
    IN IF \/ i >= TargetQueueSize
          \/ Len(queueCandidates) - Cardinality(usedPlayers) < PlayersPerMatch
          \/ Len(availableCandidates) < PlayersPerMatch
       THEN {q}
       ELSE UNION {
              IF Len(selectedPlayers) = PlayersPerMatch
              THEN UNION { QueueRounds(i + 1, queueCandidates,
                                       usedPlayers \cup Range(MatchPlayers(m)),
                                       Append(q, m), ws, ps) :
                             m \in FindBestTeamMatch(selectedPlayers, ws, ps) }
              ELSE QueueRounds(i + 1, queueCandidates, usedPlayers, q, ws, ps)
              : selectedPlayers \in SelectOptimalQueueGroup(availableCandidates, PlayersPerMatch) }

GenerateQueueWithSupplement(remainingPlayers, playingPlayers, ws, ps) ==
    UNION { QueueRounds(0, remainingPlayers \o sup, {}, <<>>, ws, ps) :
              sup \in SupplementPlayers(remainingPlayers, playingPlayers) }

\* generateOptimalTeams of revision 2
GenerateOptimalTeams2(ps, n, ws) ==
    LET available == SelectSeq(ps, NotLeft)
    IN IF Len(available) < 4 THEN {TooFewResult(available, n)}
       ELSE UNION {
         LET sorted == SortWith(available, "priority", tie)
             maxCourtsCanFill == Min(n, Len(sorted) \div 4)
             playingCount == maxCourtsCanFill * 4
             playingPlayers == Slice(sorted, 0, playingCount)
             remainingPlayers == Slice(sorted, playingCount, Len(sorted))
             actualCourtsUsed == (playingCount + 3) \div 4
             waiting(q) ==
                 SelectSeq(sorted, LAMBDA p :
                     /\ p.id \notin Range(IdsOf(playingPlayers))
                     /\ \A k \in 1..Len(q) : p.id \notin Range(MatchPlayers(q[k])))
         IN { [courts |-> PadCourts(cs, n), queue |-> q, waiting |-> IdsOf(waiting(q))] :
                cs \in AssignPlayersToCourts(playingPlayers, actualCourtsUsed, ws, ps),
                q \in GenerateQueueWithSupplement(remainingPlayers, playingPlayers, ws, ps) }
         : tie \in TieBreaks }

GenerateOptimalTeams(v, ps, n, ws) ==
    IF v = 1 THEN GenerateOptimalTeams1(ps, n, ws) ELSE GenerateOptimalTeams2(ps, n, ws)

----------------------------------------------------------------------------
(* Stats updater: updatePlayerStats (identical in both revisions) *)

\* RecordGame without the reset of restRounds
RecordGameNoReset(ps, playerId) ==
    LET i == Find(ps, playerId)
    IN IF i = 0 THEN ps ELSE [ps EXCEPT ![i].gamesPlayed = @ + 1]

\* player.gamesPlayed++; player.restRounds = 0, for the first participant with that id
RecordGame(ps, playerId) ==
    LET i == Find(ps, playerId)
    IN IF i = 0 THEN ps
       ELSE [ps EXCEPT ![i].gamesPlayed = @ + 1, ![i].restRounds = 0]

\* UpdateTeammateStats that forgets the second player's map
UpdateTeammateStatsOneSided(ps, player1Id, player2Id) ==
    LET i == Find(ps, player1Id)
    IN IF i = 0 THEN ps ELSE [ps EXCEPT ![i].teammates[player2Id] = @ + 1]

UpdateTeammateStats(ps, player1Id, player2Id) ==
    LET i == Find(ps, player1Id)
        p1 == IF i = 0 THEN ps ELSE [ps EXCEPT ![i].teammates[player2Id] = @ + 1]
        j == Find(p1, player2Id)
    IN IF j = 0 THEN p1 ELSE [p1 EXCEPT ![j].teammates[player1Id] = @ + 1]

UpdateOpponentStats(ps, player1Id, player2Id) ==
    LET i == Find(ps, player1Id)
        p1 == IF i = 0 THEN ps ELSE [ps EXCEPT ![i].opponents[player2Id] = @ + 1]
        j == Find(p1, player2Id)
    IN IF j = 0 THEN p1 ELSE [p1 EXCEPT ![j].opponents[player1Id] = @ + 1]

\* the closing loop: every participant outside the match whose status is not 'away'
UpdateRestRounds(ps, allPlayers) ==
    [i \in 1..Len(ps) |->
        IF ps[i].id \notin Range(allPlayers) /\ ps[i].status # "away"
        THEN [ps[i] EXCEPT !.restRounds = @ + 1]
        ELSE ps[i]]

UpdatePlayerStats(ps, completedGame) ==
    LET team1 == completedGame.team1
        team2 == completedGame.team2
        allPlayers == MatchPlayers(completedGame)
        s1 == RecordGame(RecordGame(RecordGame(RecordGame(ps,
                  allPlayers[1]), allPlayers[2]), allPlayers[3]), allPlayers[4])
        s2 == UpdateTeammateStats(s1, team1.player1, team1.player2)
        s3 == UpdateTeammateStats(s2, team2.player1, team2.player2)
        s4 == UpdateOpponentStats(s3, team1.player1, team2.player1)
        s5 == UpdateOpponentStats(s4, team1.player1, team2.player2)
        s6 == UpdateOpponentStats(s5, team1.player2, team2.player1)
        s7 == UpdateOpponentStats(s6, team1.player2, team2.player2)
    IN UpdateRestRounds(s7, allPlayers)

----------------------------------------------------------------------------
(* Operations record *)

NoOp == [op |-> "none", game |-> NoMatch, court |-> 0, player |-> 0]

Op(name, game, court, player) ==
    [op |-> name, game |-> game, court |-> court, player |-> player]

NoResult == [courts |-> <<>>, queue |-> <<>>, waiting |-> <<>>, called |-> FALSE]

NoValidation == [isValid |-> TRUE, duplicates |-> {}, called |-> FALSE]

\* no next-group request in flight and no session stored
StoreIdle ==
    /\ sessionStore = 0
    /\ database = <<>>
    /\ heap = <<>>
    /\ handlers = <<>>

----------------------------------------------------------------------------
(* SpecStats: updatePlayerStats called on a roster that starts with empty history     *)
(* maps, one player possibly marked as left and one possibly 'away'.                  *)

FreshRoster(n) == [i \in 1..n |-> NewParticipant(i, 0)]

\* the matches of four players of the roster, as the team finder forms them
RosterGames(ps) ==
    UNION { GenerateTeamCombinationsForPlayers([n \in 1..4 |-> ps[q[n]]]) :
              q \in { t \in (1..Len(ps)) \X (1..Len(ps)) \X (1..Len(ps)) \X (1..Len(ps)) :
                        t[1] < t[2] /\ t[2] < t[3] /\ t[3] < t[4] } }

StatsInit ==
    /\ version = 1
    /\ \E left \in 0..MaxPlayers, away \in 0..MaxPlayers :
         participants =
            [i \in 1..MaxPlayers |->
                [NewParticipant(i, 0) EXCEPT
                    !.hasLeft = (i = left),
                    !.status = IF i = away THEN "away" ELSE "resting"]]
    /\ courts = <<>>
    /\ queue = <<>>
    /\ courtCount = 1
    /\ weights = <<>>
    /\ totalGames = 0
    /\ currentRound = 1
    /\ requests = 0
    /\ result = NoResult
    /\ validation = NoValidation
    /\ before = participants
    /\ lastOp = NoOp
    /\ StoreIdle

StatsCall ==
    /\ totalGames < MaxStatCalls
    /\ \E g \in RosterGames(participants) :
         /\ participants' = UpdatePlayerStats(participants, g)
         /\ lastOp' = Op("updatePlayerStats", g, 0, 0)
    /\ before' = participants
    /\ totalGames' = totalGames + 1
    /\ UNCHANGED <<storeVars, version, courts, queue, courtCount, weights, currentRound, requests, result, validation>>

StatsNext == StatsCall

SpecStats == StatsInit /\ [][StatsNext]_vars

\* SpecScore: the same calls on a roster where nobody has left or is 'away'; the
\* scorer reads gamesPlayed and the history maps only
ScoreInit ==
    /\ version = 1
    /\ participants = FreshRoster(MaxPlayers)
    /\ courts = <<>>
    /\ queue = <<>>
    /\ courtCount = 1
    /\ weights = <<>>
    /\ totalGames = 0
    /\ currentRound = 1
    /\ requests = 0
    /\ result = NoResult
    /\ validation = NoValidation
    /\ before = participants
    /\ lastOp = NoOp
    /\ StoreIdle

SpecScore == ScoreInit /\ [][StatsNext]_vars

\* SpecFinder: the same calls, with no weight or one weight of the lowest strength
\* between players 1 and 2
FinderWeightLists ==
    { <<>>,
      << [player1 |-> 1, player2 |-> 2, type |-> "teammate", weight |-> 1] >>,
      << [player1 |-> 1, player2 |-> 2, type |-> "opponent", weight |-> 1] >> }

FinderInit ==
    /\ version = 1
    /\ participants = FreshRoster(MaxPlayers)
    /\ courts = <<>>
    /\ queue = <<>>
    /\ courtCount = 1
    /\ weights \in FinderWeightLists
    /\ totalGames = 0
    /\ currentRound = 1
    /\ requests = 0
    /\ result = NoResult
    /\ validation = NoValidation
    /\ before = participants
    /\ lastOp = NoOp
    /\ StoreIdle

SpecFinder == FinderInit /\ [][StatsNext]_vars

----------------------------------------------------------------------------
(* Queue maintainer of revision 1: maintainQueueSize *)

\* floor of Math.sqrt(x), capped at 20000, for the finer scale of the diversity score
ISqrtFine(x) == SqrtSearch(x, 0, 20000)

\* calculateGroupDiversityScore in units of 1/2000: -2 per prior game as teammates and
\* -1 per prior meeting as opponents of each pair (read from the map of the player that
\* comes first in the group), plus max(0, 10 - stddev(gamesPlayed)), plus half the
\* average restRounds
CalculateGroupDiversityScore(group, ps) ==
    LET stat(k) == PlayerStats(ps, group[k].id)
        pair(i, j) ==
            IF stat(i) # 0 /\ stat(j) # 0
            THEN ps[stat(i)].teammates[ps[stat(j)].id] * 4000
                 + ps[stat(i)].opponents[ps[stat(j)].id] * 2000
            ELSE 0
        S == SumSeq([k \in 1..4 |-> group[k].gamesPlayed])
        Q == SumSeq([k \in 1..4 |-> (4 * group[k].gamesPlayed - S) * (4 * group[k].gamesPlayed - S)])
        R == SumSeq([k \in 1..4 |-> group[k].restRounds])
    IN 0 - pair(1, 2) - pair(1, 3) - pair(1, 4) - pair(2, 3) - pair(2, 4) - pair(3, 4)
         + Max(0, 20000 - ISqrtFine(62500 * Q))
         + 250 * R

\* the order in which getCombinations lists two sets of positions
ListedBefore(x, y) ==
    \E i \in x \ y : \A j \in (x \cup y) : j < i => (j \in x <=> j \in y)

\* selectMostDiverseGroup: the first listed group of four with the highest score
SelectMostDiverseGroup(players, ps) ==
    IF Len(players) <= 4 THEN Slice(players, 0, 4)
    ELSE LET sets == { x \in SUBSET (1..Len(players)) : Cardinality(x) = 4 }
             scored == { <<x, CalculateGroupDiversityScore(Pick(players, x), ps)>> : x \in sets }
             bestScore == MaxOf({ x[2] : x \in scored })
             bestSets == { x[1] : x \in { y \in scored : y[2] = bestScore } }
             bestSet == CHOOSE x \in bestSets : \A y \in bestSets \ {x} : ListedBefore(x, y)
         IN Pick(players, bestSet)

\* status = 'queued' for the participants whose id is in ids
SetStatus(ps, ids, st) ==
    [i \in 1..Len(ps) |-> IF ps[i].id \in ids THEN [ps[i] EXCEPT !.status = st] ELSE ps[i]]

\* the loop of generateOptimalQueueMatches; a session is [participants, courts, queue]
RECURSIVE QueueMatchRounds(_, _, _, _, _, _)
QueueMatchRounds(s, ws, availablePlayers, targetMatches, usedPlayers, generatedMatches) ==
    LET unusedPlayers == SelectSeq(availablePlayers, LAMBDA p : p.id \notin usedPlayers)
        selectedPlayers == SelectMostDiverseGroup(unusedPlayers, s.participants)
    IN IF \/ generatedMatches >= targetMatches
          \/ Len(availablePlayers) - Cardinality(usedPlayers) < 4
          \/ Len(unusedPlayers) < 4
          \/ Len(selectedPlayers) # 4
       THEN {s}
       ELSE UNION {
              QueueMatchRounds(
                  [s EXCEPT !.queue = Append(@, m),
                            !.participants = SetStatus(@, Range(MatchPlayers(m)), "queued")],
                  ws, availablePlayers, targetMatches,
                  usedPlayers \cup Range(MatchPlayers(m)), generatedMatches + 1)
              : m \in FindBestTeamMatch(selectedPlayers, ws, s.participants) }

GenerateOptimalQueueMatches(s, ws, availablePlayers, targetMatches) ==
    IF Len(availablePlayers) < targetMatches * 4 THEN {s}
    ELSE QueueMatchRounds(s, ws, availablePlayers, targetMatches, {}, 0)

IsResting(p) == p.status = "resting"

\* maintainQueueSize past its early return: the queued players rest again, the queue
\* is emptied and rebuilt from every resting participant
RebuildQueue(s, ws, targetQueueSize) ==
    LET currentQueuedPlayers ==
            UNION { Range(MatchPlayers(s.queue[k])) : k \in 1..Len(s.queue) }
        reset == [s EXCEPT !.participants = SetStatus(@, currentQueuedPlayers, "resting"),
                           !.queue = <<>>]
    IN UNION {
         LET availableParticipants ==
                 SortWith(SelectSeq(reset.participants, IsResting), "priority", tie)
         IN IF Len(availableParticipants) < targetQueueSize * 4
            THEN IF Len(availableParticipants) \div 4 = 0 THEN {reset}
                 ELSE GenerateOptimalQueueMatches(reset, ws, availableParticipants,
                                                  Len(availableParticipants) \div 4)
            ELSE GenerateOptimalQueueMatches(reset, ws, availableParticipants,
                                             targetQueueSize)
         : tie \in TieBreaks }

MaintainQueueSize(s, ws, targetQueueSize) ==
    IF Len(s.queue) >= targetQueueSize THEN {s}
    ELSE RebuildQueue(s, ws, targetQueueSize)

\* autoMaintainQueue of revision 1
AutoMaintainQueue1(s, ws) ==
    UNION { IF Len(t.queue) < 1 THEN MaintainQueueSize(t, ws, 1) ELSE {t} :
              t \in MaintainQueueSize(s, ws, 2) }

----------------------------------------------------------------------------
(* Queue maintainer of revision 2: regenerateQueueWithSupplement *)

\* the participants found for the ids on the playing courts, court by court
CourtPlayers(s) ==
    Concat([c \in 1..Len(s.courts) |->
        IF /\ s.courts[c].team1 # NullTeam /\ s.courts[c].team2 # NullTeam
           /\ s.courts[c].status = "playing"
        THEN LET ids == SelectSeq(MatchPlayers(s.courts[c]),
                                  LAMBDA id : Find(s.participants, id) # 0)
             IN [k \in 1..Len(ids) |-> s.participants[Find(s.participants, ids[k])]]
        ELSE <<>>])

RestingNotLeft(p) == p.status = "resting" /\ ~p.hasLeft

\* status = 'queued' for the resting participants of the new queue
MarkQueued(ps, q) ==
    LET ids == UNION { Range(MatchPlayers(q[k])) : k \in 1..Len(q) }
    IN [i \in 1..Len(ps) |->
          IF ps[i].id \in ids /\ ps[i].status = "resting"
          THEN [ps[i] EXCEPT !.status = "queued"] ELSE ps[i]]

RegenerateQueueWithSupplement(s, ws) ==
    LET playingPlayers == CourtPlayers(s)
        restingPlayers == SelectSeq(s.participants, RestingNotLeft)
        reset == [i \in 1..Len(s.participants) |->
                    IF s.participants[i].status = "queued"
                    THEN [s.participants[i] EXCEPT !.status = "resting"]
                    ELSE s.participants[i]]
    IN { [s EXCEPT !.queue = newQueue, !.participants = MarkQueued(reset, newQueue)] :
           newQueue \in GenerateQueueWithSupplement(restingPlayers, playingPlayers, ws, reset) }

AutoMaintainQueue(v, s, ws) ==
    IF v = 1 THEN AutoMaintainQueue1(s, ws) ELSE RegenerateQueueWithSupplement(s, ws)

----------------------------------------------------------------------------
(* validateAssignment (identical in both revisions) *)

\* AssignedPlayers that stops after the courts
AssignedPlayersCourtsOnly(cs, q) ==
    Concat([i \in 1..Len(cs) |->
              IF cs[i].team1 # NullTeam /\ cs[i].team2 # NullTeam
              THEN MatchPlayers(cs[i]) ELSE <<>>])

\* the players of the filled courts, then of the queue matches, in the order scanned
AssignedPlayers(cs, q) ==
    Concat([i \in 1..Len(cs) |->
              IF cs[i].team1 # NullTeam /\ cs[i].team2 # NullTeam
              THEN MatchPlayers(cs[i]) ELSE <<>>])
    \o Concat([i \in 1..Len(q) |-> MatchPlayers(q[i])])

\* the scan: an id already in allAssignedPlayers is reported, any other is added
RECURSIVE ScanDuplicates(_, _, _)
ScanDuplicates(ids, allAssignedPlayers, duplicates) ==
    IF ids = <<>> THEN duplicates
    ELSE IF Head(ids) \in allAssignedPlayers
    THEN ScanDuplicates(Tail(ids), allAssignedPlayers, duplicates \cup {Head(ids)})
    ELSE ScanDuplicates(Tail(ids), allAssignedPlayers \cup {Head(ids)}, duplicates)

ValidateAssignment(r) ==
    LET duplicates == ScanDuplicates(AssignedPlayers(r.courts, r.queue), {}, {})
    IN [isValid |-> duplicates = {}, duplicates |-> duplicates, called |-> TRUE]

----------------------------------------------------------------------------
(* SpecTeams: generateOptimalTeams, then validateAssignment, called once on a roster  *)
(* drawn from bounded sets.  In the rosters of up to MaxPlayers players, players 1    *)
(* and 2 carry arbitrary counters and any subset has left; the weight list is empty   *)
(* or holds one teammate preference.  The rosters of LargePlayers new players, of     *)
(* which the first or the last has left after resting a round, are assigned to one    *)
(* court, so that both revisions also build a queue from players off the court.       *)

MaxCourts == 2

StatLevels == 0..1

WeightLists ==
    { <<>>, << [player1 |-> 1, player2 |-> 3, type |-> "teammate", weight |-> 10] >> }

Rosters(n) ==
    { [i \in 1..n |->
         [NewParticipant(i, IF i <= 2 THEN g[i] ELSE 0) EXCEPT
             !.restRounds = IF i <= 2 THEN r[i] ELSE 0,
             !.hasLeft = (i \in left)]] :
        g \in [1..2 -> StatLevels], r \in [1..2 -> StatLevels], left \in SUBSET (1..n) }

LargePlayers == 9

LargeRosters ==
    { [i \in 1..LargePlayers |->
         [NewParticipant(i, 0) EXCEPT !.restRounds = IF i = left THEN 1 ELSE 0,
                                      !.hasLeft = (i = left)]] :
        left \in {1, LargePlayers} }

TeamsInit ==
    /\ version \in {1, 2}
    /\ \/ /\ \E n \in 0..MaxPlayers : participants \in Rosters(n)
          /\ courtCount \in 1..MaxCourts
       \/ /\ participants \in LargeRosters
          /\ courtCount = 1
    /\ weights \in WeightLists
    /\ courts = <<>>
    /\ queue = <<>>
    /\ totalGames = 0
    /\ currentRound = 1
    /\ requests = 0
    /\ result = NoResult
    /\ validation = NoValidation
    /\ before = participants
    /\ lastOp = NoOp
    /\ StoreIdle

CallGenerateOptimalTeams ==
    /\ ~result.called
    /\ \E r \in GenerateOptimalTeams(version, participants, courtCount, weights) :
         /\ result' = [courts |-> r.courts, queue |-> r.queue, waiting |-> r.waiting,
                       called |-> TRUE]
         /\ validation' = ValidateAssignment(r)
    /\ lastOp' = Op("generateOptimalTeams", NoMatch, 0, 0)
    /\ UNCHANGED <<storeVars, version, participants, courts, queue, courtCount, weights,
                   totalGames, currentRound, requests, before>>

TeamsNext == CallGenerateOptimalTeams

SpecTeams == TeamsInit /\ [][TeamsNext]_vars

----------------------------------------------------------------------------
(* SpecEight: the scenario of eight new players on two courts with no weights         *)

EightInit ==
    /\ version \in {1, 2}
    /\ participants = FreshRoster(8)
    /\ courtCount = 2
    /\ weights = <<>>
    /\ courts = <<>>
    /\ queue = <<>>
    /\ totalGames = 0
    /\ currentRound = 1
    /\ requests = 0
    /\ result = NoResult
    /\ validation = NoValidation
    /\ before = participants
    /\ lastOp = NoOp
    /\ StoreIdle

EightNext == CallGenerateOptimalTeams

SpecEight == EightInit /\ [][EightNext]_vars

\* SpecSupplement: generateOptimalTeams of revision 2 on LargePlayers players and one
\* court, so that the queue needs fewer players than the court holds.  Players 1 and 2
\* carry arbitrary counters, the others have played one game.
SupplementRosters ==
    { [i \in 1..LargePlayers |->
         [NewParticipant(i, IF i <= 2 THEN g[i] ELSE 1) EXCEPT
             !.restRounds = IF i <= 2 THEN r[i] ELSE 0]] :
        g \in [1..2 -> StatLevels], r \in [1..2 -> StatLevels] }

SupplementInit ==
    /\ version = 2
    /\ participants \in SupplementRosters
    /\ courtCount = 1
    /\ weights = <<>>
    /\ courts = <<>>
    /\ queue = <<>>
    /\ totalGames = 0
    /\ currentRound = 1
    /\ requests = 0
    /\ result = NoResult
    /\ validation = NoValidation
    /\ before = participants
    /\ lastOp = NoOp
    /\ StoreIdle

SupplementNext == CallGenerateOptimalTeams

SpecSupplement == SupplementInit /\ [][SupplementNext]_vars

----------------------------------------------------------------------------
(* SpecTwelve: the scenario of twelve new players on two courts with no weights       *)

TwelveInit ==
    /\ version \in {1, 2}
    /\ participants = FreshRoster(12)
    /\ courtCount = 2
    /\ weights = <<>>
    /\ courts = <<>>
    /\ queue = <<>>
    /\ totalGames = 0
    /\ currentRound = 1
    /\ requests = 0
    /\ result = NoResult
    /\ validation = NoValidation
    /\ before = participants
    /\ lastOp = NoOp
    /\ StoreIdle

TwelveNext == CallGenerateOptimalTeams

SpecTwelve == TwelveInit /\ [][TwelveNext]_vars

----------------------------------------------------------------------------
(* SpecRounds: the test page.  createTestParticipants draws gamesPlayed from 0..2 and  *)
(* restRounds from 0..1 (here for the first two players, the others start at 0),      *)
(* runAlgorithmTest calls generateOptimalTeams, and simulateGameCompletion calls      *)
(* updatePlayerStats for every filled court of the last assignment and then           *)
(* generateOptimalTeams again, on one court.  Of an assignment the page state keeps  *)
(* the courts here, the only part that simulateGameCompletion reads.                  *)

MaxRounds == 5

TestGames == 0..2

TestRests == 0..1

TestRosters(n) ==
    { [i \in 1..n |->
         [NewParticipant(i, IF i <= 2 THEN g[i] ELSE 0) EXCEPT
             !.restRounds = IF i <= 2 THEN r[i] ELSE 0]] :
        g \in [1..2 -> TestGames], r \in [1..2 -> TestRests] }

RoundsInit ==
    /\ version \in {1, 2}
    /\ \E n \in PlayersPerMatch..MaxPlayers : participants \in TestRosters(n)
    /\ courtCount = 1
    /\ weights = <<>>
    /\ courts = <<>>
    /\ queue = <<>>
    /\ totalGames = 0
    /\ currentRound = 0
    /\ requests = 0
    /\ result = NoResult
    /\ validation = NoValidation
    /\ before = participants
    /\ lastOp = NoOp
    /\ StoreIdle

\* the filled courts of an assignment, played one after the other
RECURSIVE CompleteCourts(_, _)
CompleteCourts(ps, cs) ==
    IF cs = <<>> THEN ps
    ELSE IF Head(cs).team1 # NullTeam /\ Head(cs).team2 # NullTeam
    THEN CompleteCourts(UpdatePlayerStats(ps, Head(cs)), Tail(cs))
    ELSE CompleteCourts(ps, Tail(cs))

KeptResult(r) == [courts |-> r.courts, queue |-> <<>>, waiting |-> <<>>, called |-> TRUE]

RunAlgorithmTest ==
    /\ ~result.called
    /\ Len(participants) # 0
    /\ \E r \in GenerateOptimalTeams(version, participants, courtCount, weights) :
         result' = KeptResult(r)
    /\ lastOp' = Op("runAlgorithmTest", NoMatch, 0, 0)
    /\ UNCHANGED <<storeVars, version, participants, courts, queue, courtCount, weights,
                   totalGames, currentRound, requests, validation, before>>

SimulateGameCompletion ==
    /\ currentRound < MaxRounds
    /\ result.called /\ Len(result.courts) # 0
    /\ LET updatedParticipants == CompleteCourts(participants, result.courts)
       IN /\ participants' = updatedParticipants
          /\ \E r \in GenerateOptimalTeams(version, updatedParticipants, courtCount, weights) :
               result' = KeptResult(r)
    /\ currentRound' = currentRound + 1
    /\ lastOp' = Op("simulateGameCompletion", NoMatch, 0, 0)
    /\ UNCHANGED <<storeVars, version, courts, queue, courtCount, weights,
                   totalGames, requests, validation, before>>

RoundsNext == RunAlgorithmTest \/ SimulateGameCompletion

SpecRounds == RoundsInit /\ [][RoundsNext]_vars

----------------------------------------------------------------------------
(* Spec: one session, from its creation on, driven by the routes generate,            *)
(* next-group, join (POST participants), leave and rejoin.  Each request runs from    *)
(* its getGameSession to its saveGameSession as one step.                             *)

MinInitialPlayers == 4

\* the participants whose leave and rejoin requests are sent
Leavers == {1, 5}

Session == [participants |-> participants, courts |-> courts, queue |-> queue]

\* the status loops that follow generateOptimalTeams in the create and generate routes
ApplyAssignment(ps, r) ==
    LET resting == [i \in 1..Len(ps) |-> [ps[i] EXCEPT !.status = "resting"]]
        onCourt == UNION { Range(MatchPlayers(r.courts[c])) :
                             c \in { k \in 1..Len(r.courts) :
                                       /\ r.courts[k].team1 # NullTeam
                                       /\ r.courts[k].team2 # NullTeam } }
    IN [participants |-> MarkQueued(SetStatus(resting, onCourt, "playing"), r.queue),
        courts |-> r.courts,
        queue |-> r.queue]

\* New players are identical, so every creation outcome is a renaming of one whose
\* first court holds players 1 and 2 against players 3 and 4: only those are kept.
TeamsInRosterOrder(cs) ==
    \A i \in 1..Len(cs) :
        cs[i].status = "playing"
            => MatchPlayers(cs[i]) = <<4 * i - 3, 4 * i - 2, 4 * i - 1, 4 * i>>

\* POST sessions: the session as created
CreateSession(v, n, cc) ==
    { ApplyAssignment(FreshRoster(n), r) :
        r \in { x \in GenerateOptimalTeams(v, FreshRoster(n), cc, <<>>) :
                 TeamsInRosterOrder(x.courts) } }

Init ==
    /\ version \in {1, 2}
    /\ courtCount \in 1..MaxCourts
    /\ weights = <<>>
    /\ \E n \in MinInitialPlayers..MaxPlayers :
         \E s \in CreateSession(version, n, courtCount) :
            /\ participants = s.participants
            /\ courts = s.courts
            /\ queue = s.queue
    /\ totalGames = 0
    /\ currentRound = 1
    /\ requests = 0
    /\ result = NoResult
    /\ validation = NoValidation
    /\ before = <<>>
    /\ lastOp = NoOp
    /\ StoreIdle

Install(s) ==
    /\ participants' = s.participants
    /\ courts' = s.courts
    /\ queue' = s.queue

\* POST sessions/[sessionId]/generate
Generate ==
    /\ requests < MaxRequests
    /\ \E r \in GenerateOptimalTeams(version, participants, courtCount, weights) :
         Install(ApplyAssignment(participants, r))
    /\ currentRound' = currentRound + 1
    /\ lastOp' = Op("generate", NoMatch, 0, 0)
    /\ UNCHANGED <<storeVars, version, courtCount, weights, totalGames, result, validation, before>>
    /\ requests' = requests + 1

CourtIsPlaying(c) ==
    c.team1 # NullTeam /\ c.team2 # NullTeam /\ c.status = "playing"

\* next-group that clears the court only when a queue match replaces its match
NextGroupStepKeepingCourt(s, courtId) ==
    LET court == s.courts[courtId]
        finished == IF CourtIsPlaying(court)
                    THEN SetStatus(UpdatePlayerStats(s.participants, court),
                                   Range(MatchPlayers(court)), "resting")
                    ELSE s.participants
    IN IF Len(s.queue) > 0
       THEN LET nextMatch == Head(s.queue)
            IN [participants |-> SetStatus(finished, Range(MatchPlayers(nextMatch)), "playing"),
                courts |-> [s.courts EXCEPT ![courtId] = PlayingCourt(courtId, nextMatch)],
                queue |-> Tail(s.queue)]
       ELSE [participants |-> finished, courts |-> s.courts, queue |-> s.queue]

\* next-group up to its call of autoMaintainQueue
NextGroupStep(s, courtId) ==
    LET court == s.courts[courtId]
        finished == IF CourtIsPlaying(court)
                    THEN SetStatus(UpdatePlayerStats(s.participants, court),
                                   Range(MatchPlayers(court)), "resting")
                    ELSE s.participants
    IN IF Len(s.queue) > 0
       THEN LET nextMatch == Head(s.queue)
            IN [participants |-> SetStatus(finished, Range(MatchPlayers(nextMatch)), "playing"),
                courts |-> [s.courts EXCEPT ![courtId] = PlayingCourt(courtId, nextMatch)],
                queue |-> Tail(s.queue)]
       ELSE [participants |-> finished,
             courts |-> [s.courts EXCEPT ![courtId] = EmptyCourt(courtId)],
             queue |-> s.queue]

\* POST sessions/[id]/next-group with body {courtId}
NextGroup(courtId) ==
    /\ requests < MaxRequests
    /\ courtId \in 1..Len(courts)
    /\ \E s \in AutoMaintainQueue(version, NextGroupStep(Session, courtId), weights) :
         Install(s)
    /\ totalGames' = IF CourtIsPlaying(courts[courtId]) THEN totalGames + 1 ELSE totalGames
    /\ lastOp' = Op("next-group",
                    IF CourtIsPlaying(courts[courtId])
                    THEN [team1 |-> courts[courtId].team1, team2 |-> courts[courtId].team2]
                    ELSE NoMatch,
                    courtId, 0)
    /\ UNCHANGED <<storeVars, version, courtCount, weights, currentRound, result, validation, before>>
    /\ requests' = requests + 1

\* Math.min over the gamesPlayed of the participants that have not left, 0 if none
MinGamesPlayed(ps) ==
    LET active == SelectSeq(ps, NotLeft)
    IN IF Len(active) = 0 THEN 0
       ELSE MinOf({active[i].gamesPlayed : i \in 1..Len(active)})

\* POST sessions/[sessionId]/participants: a new participant joins a session of fewer
\* than limit participants
JoinUpTo(limit) ==
    /\ requests < MaxRequests
    /\ Len(participants) < limit
    /\ LET newParticipant == NewParticipant(Len(participants) + 1, MinGamesPlayed(participants))
           joined == [Session EXCEPT !.participants = Append(@, newParticipant)]
       IN /\ \E s \in MaintainQueueSize(joined, weights, 2) : Install(s)
          /\ lastOp' = Op("join", NoMatch, 0, newParticipant.id)
    /\ UNCHANGED <<storeVars, version, courtCount, weights, totalGames, currentRound, result, validation, before>>
    /\ requests' = requests + 1

Join == JoinUpTo(MaxPlayers)

MatchHas(m, id) == id \in Range(MatchPlayers(m))

\* POST sessions/[sessionId]/participants/[participantId]/leave
Leave(i) ==
    /\ requests < MaxRequests
    /\ i \in 1..Len(participants)
    /\ ~participants[i].hasLeft
    /\ participants' = [participants EXCEPT ![i].hasLeft = TRUE, ![i].status = "resting"]
    /\ queue' = SelectSeq(queue, LAMBDA m : ~MatchHas(m, participants[i].id))
    /\ lastOp' = Op("leave", NoMatch, 0, participants[i].id)
    /\ UNCHANGED <<storeVars, version, courts, courtCount, weights, totalGames, currentRound, result, validation, before>>
    /\ requests' = requests + 1

\* DELETE sessions/[sessionId]/participants/[participantId]/leave: the participant rejoins
Rejoin(i) ==
    /\ requests < MaxRequests
    /\ i \in 1..Len(participants)
    /\ participants[i].hasLeft
    /\ participants' = [participants EXCEPT ![i].hasLeft = FALSE, ![i].status = "resting"]
    /\ lastOp' = Op("rejoin", NoMatch, 0, participants[i].id)
    /\ UNCHANGED <<storeVars, version, courts, queue, courtCount, weights, totalGames, currentRound, result, validation, before>>
    /\ requests' = requests + 1

Next ==
    \/ Generate
    \/ \E c \in 1..MaxCourts : NextGroup(c)
    \/ Join
    \/ \E i \in Leavers : Leave(i)
    \/ \E i \in Leavers : Rejoin(i)

Spec == Init /\ [][Next]_vars

----------------------------------------------------------------------------
(* SpecFinish: the session of Spec driven by generate, next-group and the             *)
(* [id]/finish-game route, which completes a court's match with its own statistics    *)
(* loop instead of updatePlayerStats.                                                 *)

\* how many times id occurs in the id list
Occurrences(list, id) == Cardinality({ k \in 1..Len(list) : list[k] = id })

\* the statistics loop of the route: every participant whose id is on the court
FinishGameStats(ps, court) ==
    LET playingPlayerIds == MatchPlayers(court)
    IN [i \in 1..Len(ps) |->
          IF ps[i].id \in Range(playingPlayerIds)
          THEN LET isTeam1 == court.team1.player1 = ps[i].id \/ court.team1.player2 = ps[i].id
                   own == IF isTeam1 THEN <<court.team1.player1, court.team1.player2>>
                                     ELSE <<court.team2.player1, court.team2.player2>>
                   teammates == SelectSeq(own, LAMBDA id : id # ps[i].id)
                   opponents == IF isTeam1 THEN <<court.team2.player1, court.team2.player2>>
                                           ELSE <<court.team1.player1, court.team1.player2>>
               IN [ps[i] EXCEPT
                     !.gamesPlayed = @ + 1,
                     !.status = "resting",
                     !.teammates = [x \in Ids |-> @[x] + Occurrences(teammates, x)],
                     !.opponents = [x \in Ids |-> @[x] + Occurrences(opponents, x)]]
          ELSE ps[i]]

\* the queue refill of the route: generateOptimalTeams over the participants that have
\* not left, of which only the queue is kept, then the two status loops
FinishGameRefill(v, s, n, ws) ==
    LET reset == [i \in 1..Len(s.participants) |->
                    IF s.participants[i].status = "queued"
                    THEN [s.participants[i] EXCEPT !.status = "resting"]
                    ELSE s.participants[i]]
    IN { [s EXCEPT !.queue = assignment.queue,
                   !.participants = MarkQueued(reset, assignment.queue)] :
           assignment \in GenerateOptimalTeams(v, SelectSeq(s.participants, NotLeft), n, ws) }

\* the route from the statistics loop to the save, for a court whose status is 'playing'
FinishGameStep(v, s, courtId, n, ws) ==
    LET court == s.courts[courtId]
        finished == IF court.team1 # NullTeam /\ court.team2 # NullTeam
                    THEN FinishGameStats(s.participants, court)
                    ELSE s.participants
    IN IF Len(s.queue) > 0
       THEN LET nextMatch == Head(s.queue)
                started == [participants |-> SetStatus(finished, Range(MatchPlayers(nextMatch)),
                                                       "playing"),
                            courts |-> [s.courts EXCEPT ![courtId] = PlayingCourt(courtId, nextMatch)],
                            queue |-> Tail(s.queue)]
            IN IF Len(started.queue) < 2
               THEN FinishGameRefill(v, started, n, ws)
               ELSE {started}
       ELSE {[participants |-> finished,
              courts |-> [s.courts EXCEPT ![courtId] = EmptyCourt(courtId)],
              queue |-> s.queue]}

\* POST sessions/[id]/finish-game with body {courtId}
FinishGame(courtId) ==
    /\ requests < MaxRequests
    /\ courtId \in 1..Len(courts)
    /\ courts[courtId].status = "playing"
    /\ \E s \in FinishGameStep(version, Session, courtId, courtCount, weights) : Install(s)
    /\ totalGames' = totalGames + 1
    /\ before' = participants
    /\ lastOp' = Op("finish-game",
                    [team1 |-> courts[courtId].team1, team2 |-> courts[courtId].team2],
                    courtId, 0)
    /\ UNCHANGED <<storeVars, version, courtCount, weights, currentRound, result, validation>>
    /\ requests' = requests + 1

\* the sessions of Init that have one court
FinishInit == Init /\ courtCount = 1

FinishNext ==
    \/ Generate
    \/ \E c \in 1..MaxCourts : NextGroup(c)
    \/ \E c \in 1..MaxCourts : FinishGame(c)

SpecFinish == FinishInit /\ [][FinishNext]_vars

----------------------------------------------------------------------------
(* SpecJoin: a session of revision 1 created with 12 players on one court, so that    *)
(* its queue holds two matches, driven by next-group and by the join of a thirteenth  *)
(* participant.                                                                       *)

JoinInit ==
    /\ version = 1
    /\ courtCount = 1
    /\ weights = <<>>
    /\ \E s \in CreateSession(version, 12, courtCount) :
          /\ participants = s.participants
          /\ courts = s.courts
          /\ queue = s.queue
    /\ totalGames = 0
    /\ currentRound = 1
    /\ requests = 0
    /\ result = NoResult
    /\ validation = NoValidation
    /\ before = <<>>
    /\ lastOp = NoOp
    /\ StoreIdle

JoinNext ==
    \/ NextGroup(1)
    \/ JoinUpTo(13)

SpecJoin == JoinInit /\ [][JoinNext]_vars

----------------------------------------------------------------------------
(* SpecLive: the session of Spec with no request but next-group, which is sent again  *)
(* and again for every court that is playing: weak fairness of next-group on a        *)
(* playing court.  A next-group request for an empty court may be sent, but nothing   *)
(* says it ever is.                                                                   *)

\* a next-group request for a court that holds a match, told by the operation record
\* it leaves; the route answers every such request
NextGroupPlaying(courtId) ==
    /\ requests < MaxRequests
    /\ courtId \in 1..Len(courts)
    /\ CourtIsPlaying(courts[courtId])
    /\ lastOp' = Op("next-group",
                    [team1 |-> courts[courtId].team1, team2 |-> courts[courtId].team2],
                    courtId, 0)
    /\ requests' = requests + 1

LiveNext == \E c \in 1..MaxCourts : NextGroup(c)

SpecLive ==
    /\ Init
    /\ [][LiveNext]_vars
    /\ \A c \in 1..MaxCourts : WF_<<requests, lastOp>>(NextGroupPlaying(c))

----------------------------------------------------------------------------
(* SpecOverlap: two next-group requests for one session that overlap in time.  A      *)
(* request yields at each await: at `await getGameSession` (inside it, at `await      *)
(* getGameSessionFromDB` when the session is not cached) and at the end of            *)
(* saveGameSession.  Everything between two awaits runs as one step.  participants,   *)
(* courts, queue and totalGames hold the session as it was stored before the two      *)
(* requests.                                                                          *)

\* the two requests
Overlapping == {1, 2}

StoredSession(ps, cs, q, games) ==
    [participants |-> ps, courts |-> cs, queue |-> q, totalGames |-> games]

OverlapInit ==
    /\ version \in {1, 2}
    /\ courtCount \in 1..MaxCourts
    /\ weights = <<>>
    /\ \E n \in MinInitialPlayers..MaxPlayers :
         \E s \in CreateSession(version, n, courtCount) :
            /\ participants = s.participants
            /\ courts = s.courts
            /\ queue = s.queue
    /\ totalGames = 0
    /\ currentRound = 1
    /\ requests = 0
    /\ result = NoResult
    /\ validation = NoValidation
    /\ before = <<>>
    /\ lastOp = NoOp
    /\ database = StoredSession(participants, courts, queue, totalGames)
    /\ \/ sessionStore = 1 /\ heap = <<database>>
       \/ sessionStore = 0 /\ heap = <<>>
    /\ handlers \in [Overlapping -> [pc : {"start"}, session : {0}, courtId : 1..courtCount]]

\* the route from the return of getGameSession to its call of saveGameSession: the
\* sessions it can leave in the object it was given
HandleNextGroup(s, courtId) ==
    { StoredSession(t.participants, t.courts, t.queue,
                    IF CourtIsPlaying(s.courts[courtId])
                    THEN s.totalGames + 1 ELSE s.totalGames) :
        t \in AutoMaintainQueue(version,
                                NextGroupStep([participants |-> s.participants,
                                               courts |-> s.courts,
                                               queue |-> s.queue], courtId),
                                weights) }

\* getGameSession up to its first await: a cached object is returned as it is, a
\* session that is not cached is parsed from its row into a new object
GetGameSession(r) ==
    /\ handlers[r].pc = "start"
    /\ IF sessionStore # 0
       THEN /\ handlers' = [handlers EXCEPT ![r].pc = "got", ![r].session = sessionStore]
            /\ heap' = heap
       ELSE /\ heap' = Append(heap, database)
            /\ handlers' = [handlers EXCEPT ![r].pc = "loaded", ![r].session = Len(heap) + 1]
    /\ UNCHANGED <<sessionStore, database>>
    /\ UNCHANGED <<version, participants, courts, queue, courtCount, weights,
                   totalGames, currentRound, requests, result, validation, before, lastOp>>

\* getGameSession after `await getGameSessionFromDB`: sessionStore.set(sessionId, dbSession)
CacheLoaded(r) ==
    /\ handlers[r].pc = "loaded"
    /\ sessionStore' = handlers[r].session
    /\ handlers' = [handlers EXCEPT ![r].pc = "got"]
    /\ UNCHANGED <<database, heap>>
    /\ UNCHANGED <<version, participants, courts, queue, courtCount, weights,
                   totalGames, currentRound, requests, result, validation, before, lastOp>>

\* the route after `await getGameSession`: it changes its session object in place,
\* then saveGameSession caches a copy of the object and writes it to the row
RunNextGroup(r) ==
    /\ handlers[r].pc = "got"
    /\ \E s \in HandleNextGroup(heap[handlers[r].session], handlers[r].courtId) :
         /\ heap' = Append([heap EXCEPT ![handlers[r].session] = s], s)
         /\ database' = s
    /\ sessionStore' = Len(heap) + 1
    /\ handlers' = [handlers EXCEPT ![r].pc = "done"]
    /\ UNCHANGED <<version, participants, courts, queue, courtCount, weights,
                   totalGames, currentRound, requests, result, validation, before, lastOp>>

OverlapNext ==
    \E r \in Overlapping : GetGameSession(r) \/ CacheLoaded(r) \/ RunNextGroup(r)

SpecOverlap == OverlapInit /\ [][OverlapNext]_vars

----------------------------------------------------------------------------
(* Claims about updatePlayerStats, checked under SpecStats *)

InGame(id, game) == id \in Range(MatchPlayers(game))

StatsCalled == lastOp.op = "updatePlayerStats"

\* C6: starting from empty history maps, after any sequence of updatePlayerStats
\* calls, for any two players A and B of the roster A.teammates[B] = B.teammates[A]
\* and A.opponents[B] = B.opponents[A].
C6_HistorySymmetric ==
    \A i, j \in 1..Len(participants) :
        /\ participants[i].teammates[participants[j].id]
             = participants[j].teammates[participants[i].id]
        /\ participants[i].opponents[participants[j].id]
             = participants[j].opponents[participants[i].id]

\* two players have been teammates twice and two players have met twice as opponents
C6_Witness ==
    /\ StatsCalled
    /\ \E i, j \in 1..Len(participants) : participants[i].teammates[j] = 2
    /\ \E i, j \in 1..Len(participants) : participants[i].opponents[j] = 2

\* C7: updatePlayerStats increments restRounds by 1 for exactly the players who are
\* not in the finished match, have not left and are not 'away'; the restRounds of a
\* player with hasLeft = true is left unchanged.
C7_RestOnlyForActive ==
    StatsCalled =>
        \A i \in 1..Len(participants) :
            /\ (participants[i].restRounds = before[i].restRounds + 1)
                 <=> (/\ ~InGame(before[i].id, lastOp.game)
                      /\ ~before[i].hasLeft
                      /\ before[i].status # "away")
            /\ before[i].hasLeft => participants[i].restRounds = before[i].restRounds

\* C8: updatePlayerStats increments gamesPlayed by exactly 1 and sets restRounds to 0
\* for each of the four players of the finished match, and changes the gamesPlayed of
\* no other player.
C8_GamesPlayedExact ==
    StatsCalled =>
        \A i \in 1..Len(participants) :
            IF InGame(before[i].id, lastOp.game)
            THEN /\ participants[i].gamesPlayed = before[i].gamesPlayed + 1
                 /\ participants[i].restRounds = 0
            ELSE participants[i].gamesPlayed = before[i].gamesPlayed

\* a player who had rested a round plays the finished match, and another one sits out
C8_Witness ==
    /\ StatsCalled
    /\ \E i \in 1..Len(participants) :
         InGame(before[i].id, lastOp.game) /\ before[i].restRounds > 0
    /\ \E i \in 1..Len(participants) :
         ~InGame(before[i].id, lastOp.game) /\ before[i].gamesPlayed > 0

----------------------------------------------------------------------------
(* Placements, as the claims read them *)

\* every player id held by a court team or a queue match, in order of appearance
Placed(cs, q) ==
    SelectSeq(Concat([i \in 1..Len(cs) |-> MatchPlayers(cs[i])])
                \o Concat([k \in 1..Len(q) |-> MatchPlayers(q[k])]),
              LAMBDA id : id # 0)

OnCourt(cs) == { id \in UNION { Range(MatchPlayers(cs[i])) : i \in 1..Len(cs) } : id # 0 }

InQueue(q) == UNION { Range(MatchPlayers(q[k])) : k \in 1..Len(q) }

NoIdTwice(a) == \A i, j \in 1..Len(a) : i # j => a[i] # a[j]

SessionOps == {"generate", "next-group", "join", "leave", "rejoin"}

LeftIds == { participants[i].id : i \in { k \in 1..Len(participants) : participants[k].hasLeft } }

ActiveIds == { participants[i].id : i \in { k \in 1..Len(participants) : ~participants[k].hasLeft } }

----------------------------------------------------------------------------
(* Claims about the session routes, checked under Spec *)

\* C1: after any sequence of session operations (generate round, next-group on a
\* court, join, leave, rejoin), with the queue rebuilt by autoMaintainQueue, no
\* player id is in two placements at once: not on two courts, not on a court and in
\* a queue match, and not in two queue matches.
C1_NoDoublePlacement ==
    lastOp.op \in SessionOps => NoIdTwice(Placed(courts, queue))

\* C3: after every session operation each participant's stored status matches their
\* placement: 'playing' exactly when the player is in a court's match, 'queued'
\* exactly when the player is in a queue match, and 'resting' or 'away' otherwise.
C3_StatusMatchesPlacement ==
    lastOp.op \in SessionOps =>
        \A i \in 1..Len(participants) :
            /\ participants[i].status = "playing" <=> participants[i].id \in OnCourt(courts)
            /\ participants[i].status = "queued" <=> participants[i].id \in InQueue(queue)
            /\ participants[i].status \in {"playing", "queued", "resting", "away"}

\* C5: once a participant has been marked as left, no later call of maintainQueueSize
\* or autoMaintainQueue (made by the join and next-group routes) puts that participant
\* into session.queue, for as long as hasLeft stays true.  The leave route has removed
\* every queue match of a left participant, so one found in the queue after such a
\* call was put there by the queue maintainer.
C5_LeftNeverQueued ==
    lastOp.op \in {"next-group", "join"} => LeftIds \cap InQueue(queue) = {}

----------------------------------------------------------------------------
(* Claims about generateOptimalTeams and validateAssignment, checked under SpecTeams  *)
(* and SpecEight                                                                      *)

\* C2: for every roster and every courtCount >= 1, the result of generateOptimalTeams
\* of revision 2 (the copy that builds its queue with generateQueueWithSupplement)
\* contains no player id twice across all court teams and all queue matches.
C2_ResultDuplicateFree ==
    (version = 2 /\ result.called) => NoIdTwice(Placed(result.courts, result.queue))

\* C4: for every roster, courtCount and weight list, a player with hasLeft = true
\* never appears in any court team or queue match returned by generateOptimalTeams,
\* whatever that player's gamesPlayed, restRounds and history are.
C4_LeftNeverAssigned ==
    result.called => LeftIds \cap Range(Placed(result.courts, result.queue)) = {}

\* a left player who would sort ahead of a player put on a court (no games, one round
\* of rest), in a result with a playing court and a queue match
C4_Witness ==
    /\ result.called
    /\ Len(result.queue) > 0
    /\ \E i, j \in 1..Len(participants) :
         /\ participants[i].hasLeft
         /\ participants[j].id \in OnCourt(result.courts)
         /\ PriorityBefore(participants[i], participants[j])

\* C9: when fewer than 4 players of the roster have hasLeft = false,
\* generateOptimalTeams returns courtCount courts that are all empty, an empty queue
\* and a waiting list holding exactly the ids of the non-left players; no error is
\* raised (the call has a result).
C9_TooFewPlayers ==
    Cardinality(ActiveIds) < 4 =>
        /\ ~result.called => ENABLED CallGenerateOptimalTeams
        /\ result.called =>
             /\ Len(result.courts) = courtCount
             /\ \A c \in 1..Len(result.courts) :
                  /\ result.courts[c].team1 = NullTeam
                  /\ result.courts[c].team2 = NullTeam
                  /\ result.courts[c].status = "empty"
             /\ result.queue = <<>>
             /\ Range(result.waiting) = ActiveIds
             /\ Len(result.waiting) = Cardinality(ActiveIds)

\* three players are left of a roster of five, and two courts were asked for
C9_Witness ==
    /\ result.called
    /\ Cardinality(ActiveIds) = 3
    /\ Cardinality(LeftIds) = 2
    /\ courtCount = 2

\* C10: for 8 players, all with gamesPlayed = 0 and restRounds = 0, none left,
\* courtCount = 2 and no weights, generateOptimalTeams returns exactly 2 filled
\* courts, an empty queue and an empty waiting list, and validateAssignment of that
\* result reports isValid = true.
C10_EightPlayersTwoCourts ==
    result.called =>
        /\ Cardinality({ c \in 1..Len(result.courts) : CourtIsPlaying(result.courts[c]) }) = 2
        /\ result.queue = <<>>
        /\ result.waiting = <<>>
        /\ validation.isValid

\* C11: for 12 players with gamesPlayed = 0, none left, courtCount = 2 and no weights,
\* generateOptimalTeams puts 8 players on the 2 courts, puts the remaining 4 players
\* into a queue of exactly 1 match, and returns an empty waiting list.
C11_TwelvePlayersTwoCourts ==
    result.called =>
        /\ Cardinality({ c \in 1..Len(result.courts) : CourtIsPlaying(result.courts[c]) }) = 2
        /\ Cardinality(OnCourt(result.courts)) = 8
        /\ Len(result.queue) = 1
        /\ InQueue(result.queue) = ActiveIds \ OnCourt(result.courts)
        /\ result.waiting = <<>>

\* C12: in every result of generateOptimalTeams, each non-left player of the roster
\* is in at least one of a court team, a queue match or the waiting list, and no id
\* of the waiting list is on a court or in a queue match.
C12_EveryoneAccountedFor ==
    result.called =>
        /\ ActiveIds \subseteq
              (OnCourt(result.courts) \cup InQueue(result.queue) \cup Range(result.waiting))
        /\ Range(result.waiting) \cap (OnCourt(result.courts) \cup InQueue(result.queue)) = {}

\* a result with a filled court, a queue match and a waiting player
C12_Witness ==
    /\ result.called
    /\ OnCourt(result.courts) # {}
    /\ result.queue # <<>>
    /\ result.waiting # <<>>

\* the players that regenerateQueueWithSupplement can draw from in session s: the
\* resting players that have not left and the players on the playing courts
QueuePool(s) ==
    Range(IdsOf(SelectSeq(s.participants, RestingNotLeft))) \cup Range(IdsOf(CourtPlayers(s)))

\* C13: whenever the resting players plus the players on courts number at least 8,
\* the queue built by generateQueueWithSupplement (in generateOptimalTeams and in
\* autoMaintainQueue) holds exactly 2 matches; with fewer players it holds 1 or 0
\* matches without raising an error; it never holds more than 2 matches.  Here for
\* the queue that the next-group route stores after autoMaintainQueue of revision 2.
C13_QueueSizeStep ==
    (version = 2 /\ lastOp'.op = "next-group") =>
        LET pool == QueuePool(NextGroupStep(Session, lastOp'.court))
        IN /\ Cardinality(pool) >= 8 => Len(queue') = 2
           /\ Cardinality(pool) < 8 => Len(queue') <= 1
           /\ Len(queue') <= 2

C13_QueueSize == [][C13_QueueSizeStep]_vars

\* C14: whenever a queue match is removed or replaced (by the leave route,
\* maintainQueueSize or autoMaintainQueue), every player of the removed match who is
\* neither in the new queue nor on a court has status 'resting' afterwards; no such
\* player keeps the status 'queued'.
C14_RemovedPlayersRestStep ==
    lastOp'.op \in {"leave", "join", "next-group"} =>
        \A i \in 1..Len(participants') :
            (/\ participants'[i].id \in InQueue(queue)
             /\ participants'[i].id \notin InQueue(queue')
             /\ participants'[i].id \notin OnCourt(courts'))
                => participants'[i].status = "resting"

C14_RemovedPlayersRest == [][C14_RemovedPlayersRestStep]_vars

\* C15: when next-group is called on a court and the queue is non-empty, the court
\* receives exactly the match that was first in the queue and its status becomes
\* 'playing'; when the queue is empty the court ends up empty with both teams null.
C15_NextGroupStep ==
    lastOp'.op = "next-group" =>
        LET court == courts'[lastOp'.court]
        IN IF Len(queue) > 0
           THEN /\ court.team1 = Head(queue).team1
                /\ court.team2 = Head(queue).team2
                /\ court.status = "playing"
           ELSE /\ court.team1 = NullTeam
                /\ court.team2 = NullTeam
                /\ court.status = "empty"

C15_NextGroupTakesQueueHead == [][C15_NextGroupStep]_vars

\* next-group has finished a game on a court and put the first queue match there:
\* the court plays a match that differs from the finished one
C15_Witness ==
    /\ lastOp.op = "next-group"
    /\ lastOp.game # NoMatch
    /\ CourtIsPlaying(courts[lastOp.court])
    /\ MatchPlayers(courts[lastOp.court]) # MatchPlayers(lastOp.game)

\* next-group has finished a game on a court and left the court empty
C15_WitnessEmpty ==
    /\ lastOp.op = "next-group"
    /\ lastOp.game # NoMatch
    /\ courts[lastOp.court] = EmptyCourt(lastOp.court)

\* the gamesPlayed of the players that have not left
ActiveGames ==
    { participants[i].gamesPlayed : i \in { k \in 1..Len(participants) : ~participants[k].hasLeft } }

ScoreWeightLists ==
    WeightLists \cup { << [player1 |-> 1, player2 |-> 2, type |-> "opponent", weight |-> 5] >> }

FourFreshPlayers ==
    /\ Len(participants) = 4
    /\ \A i \in 1..4 :
         /\ participants[i].gamesPlayed = 0
         /\ ~participants[i].hasLeft
         /\ \A id \in Ids : participants[i].teammates[id] = 0 /\ participants[i].opponents[id] = 0

\* C18: with exactly 4 players that all have gamesPlayed 0 and empty history maps, and
\* a single teammate weight of strength 10 between two of them X and Y,
\* findBestTeamMatch returns a match with X and Y on the same team, for every value of
\* the random jitter in [-0.05, 0.05].
C18_WeightedPairTogether ==
    FourFreshPlayers =>
        \A X, Y \in { participants[i].id : i \in 1..4 } :
            X # Y =>
                \A m \in FindBestTeamMatch(participants,
                            << [player1 |-> X, player2 |-> Y, type |-> "teammate", weight |-> 10] >>,
                            participants) :
                    /\ m # NoMatch
                    /\ IsTeammates(m.team1, X, Y) \/ IsTeammates(m.team2, X, Y)

\* generateOptimalTeams has run for four fresh players with the teammate weight
\* between players 1 and 3, and the court plays them on the same team
C18_Witness ==
    /\ FourFreshPlayers
    /\ result.called
    /\ weights = << [player1 |-> 1, player2 |-> 3, type |-> "teammate", weight |-> 10] >>
    /\ Len(result.courts) >= 1
    /\ \/ IsTeammates(result.courts[1].team1, 1, 3)
       \/ IsTeammates(result.courts[1].team2, 1, 3)

\* how often id x is placed on the filled courts and in the queue matches of the result
PlacedCount(x) ==
    Cardinality({ <<i, n>> \in (1..Len(result.courts)) \X (1..4) :
                    /\ result.courts[i].team1 # NullTeam
                    /\ result.courts[i].team2 # NullTeam
                    /\ MatchPlayers(result.courts[i])[n] = x })
    + Cardinality({ <<i, n>> \in (1..Len(result.queue)) \X (1..4) :
                      MatchPlayers(result.queue[i])[n] = x })

\* C20: validateAssignment returns isValid = false exactly when some player id occurs
\* more than once across the filled courts and the queue matches of the result, its
\* duplicates list holds exactly those ids (each once), and it never throws: the
\* only statements that can throw read the teams of a queue match, which are never
\* null.
C20_ValidateReportsDuplicates ==
    result.called =>
        /\ validation.called
        /\ validation.isValid = (\A x \in Ids : PlacedCount(x) <= 1)
        /\ validation.duplicates = { x \in Ids : PlacedCount(x) > 1 }
        /\ \A i \in 1..Len(result.queue) :
             result.queue[i].team1 # NullTeam /\ result.queue[i].team2 # NullTeam

\* a result in which a player of a court is also placed in a queue match, reported
C20_Witness ==
    /\ result.called
    /\ ~validation.isValid
    /\ \E x \in validation.duplicates :
         /\ \E i \in 1..Len(result.courts) : x \in Range(MatchPlayers(result.courts[i]))
         /\ \E i \in 1..Len(result.queue) : x \in Range(MatchPlayers(result.queue[i]))

BothDone == \A r \in Overlapping : handlers[r].pc = "done"

\* C19: two next-group requests for the same session that overlap in time take effect
\* as one serial execution: the final stored session (the cached object and the row)
\* equals the result of running the two requests one after the other in some order,
\* also when the session is not yet in the in-memory cache.
C19_OverlapIsSerial ==
    BothDone =>
        LET stored == StoredSession(participants, courts, queue, totalGames)
            c1 == handlers[1].courtId
            c2 == handlers[2].courtId
        IN \E o \in Overlapping :
              \E t \in HandleNextGroup(stored, IF o = 1 THEN c1 ELSE c2) :
                 /\ heap[sessionStore] \in HandleNextGroup(t, IF o = 1 THEN c2 ELSE c1)
                 /\ database = heap[sessionStore]

\* the courts of the result that play: status 'playing' and two teams set
PlayingCourts ==
    { i \in 1..Len(result.courts) :
        /\ result.courts[i].status = "playing"
        /\ result.courts[i].team1 # NullTeam
        /\ result.courts[i].team2 # NullTeam }

ResultOnCourt ==
    { i \in 1..Len(participants) :
        \E c \in 1..Len(result.courts) :
            /\ result.courts[c].team1 # NullTeam
            /\ result.courts[c].team2 # NullTeam
            /\ participants[i].id \in Range(MatchPlayers(result.courts[c])) }

\* the participants that have not left and are on no court of the result
ResultOffCourt ==
    { i \in 1..Len(participants) : ~participants[i].hasLeft /\ i \notin ResultOnCourt }

\* C22: in every result of generateOptimalTeams, for each player p placed on a court
\* and each non-left player q placed on no court: p.gamesPlayed < q.gamesPlayed, or
\* p.gamesPlayed = q.gamesPlayed and p.restRounds >= q.restRounds.
C22_CourtsTakeHighestPriority ==
    result.called =>
        \A p \in ResultOnCourt, q \in ResultOffCourt :
            \/ participants[p].gamesPlayed < participants[q].gamesPlayed
            \/ /\ participants[p].gamesPlayed = participants[q].gamesPlayed
               /\ participants[p].restRounds >= participants[q].restRounds

\* a court is filled while two players stay off it, one for having played more and
\* one for having rested less than a player of the court
C22_Witness ==
    /\ result.called
    /\ \E p \in ResultOnCourt, q \in ResultOffCourt :
         participants[p].gamesPlayed < participants[q].gamesPlayed
    /\ \E p \in ResultOnCourt, q \in ResultOffCourt :
         /\ participants[p].gamesPlayed = participants[q].gamesPlayed
         /\ participants[p].restRounds > participants[q].restRounds

\* the rosters of exactly four of the participants, in roster order
FourOfRoster ==
    { [n \in 1..4 |-> participants[q[n]]] :
        q \in { t \in (1..Len(participants)) \X (1..Len(participants))
                      \X (1..Len(participants)) \X (1..Len(participants)) :
                  t[1] < t[2] /\ t[2] < t[3] /\ t[3] < t[4] } }

\* C23: given exactly 4 players, findBestTeamMatch considers each of the 3 distinct
\* splits into two teams of 2 and returns a split whose score (jitter left out) is
\* not lower than the score of either other split.
C23_BestSplitReturned ==
    \A players \in FourOfRoster :
        LET splits == GenerateTeamCombinationsForPlayers(players)
        IN /\ Cardinality({ Normal(c) : c \in splits }) = 3
           /\ \A m \in FindBestTeamMatch(players, weights, participants), c \in splits :
                 TeamScore(m.team1, m.team2, weights, participants)
                    >= TeamScore(c.team1, c.team2, weights, participants)

FourDistinct(m) == Cardinality(Range(MatchPlayers(m))) = 4

\* C24: every match produced by the engine (each filled court and each queue match,
\* from generateOptimalTeams, maintainQueueSize and autoMaintainQueue) has four
\* pairwise distinct player ids across team1 and team2.
C24_MatchPlayersDistinct ==
    /\ \A i \in 1..Len(courts) :
         (courts[i].team1 # NullTeam /\ courts[i].team2 # NullTeam) => FourDistinct(courts[i])
    /\ \A k \in 1..Len(queue) : FourDistinct(queue[k])

\* the players generateOptimalTeams has put on the courts, and the other players that
\* have not left, as it hands them to generateQueueWithSupplement
ResultPlaying == SelectSeq(participants, LAMBDA p : p.id \in OnCourt(result.courts))

ResultRemaining ==
    SelectSeq(participants, LAMBDA p : ~p.hasLeft /\ p.id \notin OnCourt(result.courts))

\* C26: when fewer than 8 non-playing candidates are available,
\* generateQueueWithSupplement adds exactly min(shortfall, number of playing players)
\* playing players to the candidate pool, and no playing player that was not added
\* has strictly more gamesPlayed than one that was added.
C26_SupplementFromMostPlayed ==
    (result.called /\ Len(ResultRemaining) < TargetQueueSize * PlayersPerMatch) =>
        \A sup \in SupplementPlayers(ResultRemaining, ResultPlaying) :
            /\ Len(sup) = Min(TargetQueueSize * PlayersPerMatch - Len(ResultRemaining),
                              Len(ResultPlaying))
            /\ Range(sup) \subseteq Range(ResultPlaying)
            /\ NoIdTwice(IdsOf(sup))
            /\ \A x \in Range(ResultPlaying) \ Range(sup), y \in Range(sup) :
                  x.gamesPlayed <= y.gamesPlayed

\* the court holds a player with no game and players with one game, the queue needs
\* three of the four, and the player with no game is the one left out of the queue
C26_Witness ==
    /\ result.called
    /\ Len(ResultPlaying) = 4
    /\ Len(ResultRemaining) = 5
    /\ \E x \in Range(ResultPlaying) :
         /\ x.gamesPlayed = 0
         /\ x.id \notin InQueue(result.queue)
    /\ Cardinality(OnCourt(result.courts) \cap InQueue(result.queue)) = 3

\* the weights the bonus is computed for: both types, both orders of a pair, a pair
\* with a player outside the roster, and a type the scorer does not know
BonusWeights ==
    { [player1 |-> 1, player2 |-> 3, type |-> "teammate", weight |-> 10],
      [player1 |-> 2, player2 |-> 1, type |-> "teammate", weight |-> 3],
      [player1 |-> 1, player2 |-> 2, type |-> "opponent", weight |-> 5],
      [player1 |-> 4, player2 |-> 2, type |-> "opponent", weight |-> 2],
      [player1 |-> 1, player2 |-> LargePlayers + 1, type |-> "teammate", weight |-> 7],
      [player1 |-> 3, player2 |-> 4, type |-> "other", weight |-> 9] }

\* the weight lists of up to two entries, the same weight twice included
BonusWeightLists ==
    {<<>>} \cup { <<w>> : w \in BonusWeights } \cup (BonusWeights \X BonusWeights)

\* the matches of four of the first MaxPlayers participants
BonusGames == RosterGames(Slice(participants, 0, Min(Len(participants), MaxPlayers)))

\* what the claim gives for one weight, in units of 0.1
ExpectedBonus(team1, team2, w) ==
    LET t1 == {team1.player1, team1.player2}
        t2 == {team2.player1, team2.player2}
        pair == {w.player1, w.player2}
    IN IF w.type = "teammate" /\ (pair = t1 \/ pair = t2) THEN w.weight * 5
       ELSE IF /\ w.type = "opponent"
               /\ Cardinality(pair \cap t1) = 1
               /\ Cardinality(pair \cap t2) = 1
       THEN w.weight * 3
       ELSE 0

\* C25: calculateWeightBonus adds strength * 0.5 for each teammate-type weight whose
\* two players form team1 or team2, adds strength * 0.3 for each opponent-type weight
\* whose two players are on opposite teams, and adds nothing for any other weight; a
\* weight listed twice is counted twice and raises no error.
C25_WeightBonus ==
    \A g \in BonusGames, ws \in BonusWeightLists :
        CalculateWeightBonus(g.team1, g.team2, ws)
            = SumSeq([n \in 1..Len(ws) |-> ExpectedBonus(g.team1, g.team2, ws[n])])

\* generateOptimalTeams has scored its candidates with a teammate weight and the
\* court plays the weighted pair; listed twice, the weight counts twice
C25_Witness ==
    /\ result.called
    /\ weights # <<>>
    /\ Len(result.courts) >= 1
    /\ result.courts[1].team1 # NullTeam
    /\ CalculateWeightBonus(result.courts[1].team1, result.courts[1].team2, weights) = 50
    /\ CalculateWeightBonus(result.courts[1].team1, result.courts[1].team2,
                            weights \o weights) = 100

----------------------------------------------------------------------------
(* Claims on SpecFinish *)

\* the four statistics of the participants
StatsOf(ps) ==
    [i \in 1..Len(ps) |->
        [id |-> ps[i].id, gamesPlayed |-> ps[i].gamesPlayed, restRounds |-> ps[i].restRounds,
         teammates |-> ps[i].teammates, opponents |-> ps[i].opponents]]

\* C27: completing a court's match through the [id]/finish-game route changes
\* gamesPlayed, restRounds, teammates and opponents of every participant exactly as
\* one call of updatePlayerStats for that match would (refuted: the route never
\* writes restRounds).
C27_FinishGameStep ==
    lastOp'.op = "finish-game" /\ lastOp'.game.team1 # NullTeam /\ lastOp'.game.team2 # NullTeam
        => StatsOf(participants') = StatsOf(UpdatePlayerStats(participants, lastOp'.game))

C27_FinishGameAsUpdatePlayerStats == [][C27_FinishGameStep]_vars

----------------------------------------------------------------------------
(* Claims on the join route *)

\* the session of the join route just before its call of maintainQueueSize
Joined(ps, cs, q, id) ==
    [participants |-> Append(ps, NewParticipant(id, MinGamesPlayed(ps))),
     courts |-> cs, queue |-> q]

\* C28: every join through POST participants regenerates the waiting queue with the
\* newcomer in the candidate pool, regardless of how many matches the queue held
\* before the join.
C28_JoinStep ==
    lastOp'.op = "join"
        => \E s \in RebuildQueue(Joined(participants, courts, queue, lastOp'.player), weights, 2) :
              /\ queue' = s.queue
              /\ participants' = s.participants

C28_JoinRegeneratesQueue == [][C28_JoinStep]_vars

----------------------------------------------------------------------------
(* Claims on SpecLive *)

\* participant i of the roster is on a court, or there is no such participant or they
\* have left
PlacedOrAbsent(i) ==
    \/ i > Len(participants)
    \/ participants[i].hasLeft
    \/ participants[i].id \in OnCourt(courts)

\* C29: in a session with at least 4 non-left players and no joins or leaves, if
\* next-group keeps being called on every court that is playing (weak fairness),
\* every non-left participant is eventually placed on a court.  Behaviours that use
\* up their MaxRequests requests are left out of the statement.
C29_EveryoneEventuallyPlaced ==
    \A i \in 1..MaxPlayers : <>(PlacedOrAbsent(i) \/ requests = MaxRequests)

----------------------------------------------------------------------------
(* Claims on the courts of SpecFinish *)

\* C30: after every operation that writes courts (generateOptimalTeams, next-group,
\* finish-game), each court has status 'playing' exactly when both team1 and team2
\* are non-null, and status 'empty' exactly when both are null; no court has one team
\* set and the other null.
C30_CourtStatus ==
    \A c \in 1..Len(courts) :
        /\ courts[c].status = "playing"
              <=> (courts[c].team1 # NullTeam /\ courts[c].team2 # NullTeam)
        /\ courts[c].status = "empty"
              <=> (courts[c].team1 = NullTeam /\ courts[c].team2 = NullTeam)
        /\ courts[c].team1 = NullTeam <=> courts[c].team2 = NullTeam

\* after a generate request, finish-game has completed a match while the queue was
\* empty, which leaves the court empty
C30_Witness ==
    /\ lastOp.op = "finish-game"
    /\ lastOp.game # NoMatch
    /\ courts[lastOp.court] = EmptyCourt(lastOp.court)
    /\ totalGames >= 1
    /\ currentRound >= 2

====
